---------------------------- MODULE Spec2Model ----------------------------
(***************************************************************************)
(* A model of prow/pjutil/pjutil.go: the helpers that build ProwJob specs  *)
(* from job configuration, wrap them into ProwJobs, project a ProwJob to   *)
(* the Pod that runs it, derive the job's environment, and aggregate lists *)
(* of ProwJobs.                                                            *)
(*                                                                         *)
(* Each group of functions has its own specification over the variables    *)
(* it uses; the variables of the other groups stay at their idle value.    *)
(***************************************************************************)
EXTENDS Integers, Sequences, FiniteSets, TLC

VARIABLES
    \* PartitionPending and GetLatestPeriodics: the list handed in
    pjs,
    \* PartitionPending: position in the function, loop index, the count of
    \* pending jobs, the two channels, and the two consumers of the channels
    pc, idx, pendingCount, pending, nonPending, got, finished,
    \* GetLatestPeriodics: the map it fills
    latestJobs,
    \* EnvForSpec and NewProwJob: the ProwJobSpec handed in; EnvForSpec: the
    \* map it returns
    spec, env,
    \* the spec builders: the job configuration and refs handed in, the
    \* builder called, and what it returns
    template, refs, builder, built,
    \* NewProwJob and ProwJobToPod: the memory their maps and slices live in,
    \* the caller's label map, the clock, the ProwJob and the Pod
    heap, labels, now, pj, pod

\* The variables shared by the groups, and those of each group alone.
partOnly == <<pendingCount, pending, nonPending, got, finished>>
latestOnly == <<latestJobs>>
envOnly == <<env>>
buildOnly == <<template, refs, builder, built>>
heapOnly == <<heap, labels, now, pj, pod>>

vars == <<pjs, pc, idx, spec, partOnly, latestOnly, envOnly, buildOnly, heapOnly>>

\* What the actions of each group leave alone.
notPart == <<spec, latestOnly, envOnly, buildOnly, heapOnly>>
notLatest == <<spec, partOnly, envOnly, buildOnly, heapOnly>>
notEnv == <<pjs, idx, partOnly, latestOnly, buildOnly, heapOnly>>
notBuild == <<pjs, idx, spec, partOnly, latestOnly, envOnly, heapOnly>>
notHeap == <<pjs, idx, partOnly, latestOnly, envOnly, buildOnly>>

\* The idle values of each group's variables.
PartOff ==
    /\ pendingCount = 0
    /\ pending = <<>>
    /\ nonPending = <<>>
    /\ got = <<>>
    /\ finished = {}

LatestOff == latestJobs = <<>>

ListOff == pjs = <<>> /\ idx = 0

EnvOff == env = <<>>

BuildOff ==
    /\ template = <<>>
    /\ refs = <<>>
    /\ builder = ""
    /\ built = <<>>

HeapOff ==
    /\ heap = <<>>
    /\ labels = 0
    /\ now = 0
    /\ pj = <<>>
    /\ pod = <<>>

(***************************************************************************)
(* Job types and job states of package kube, as pjutil.go uses them.       *)
(***************************************************************************)
PresubmitJob == "presubmit"
PostsubmitJob == "postsubmit"
PeriodicJob == "periodic"
BatchJob == "batch"
JobTypes == {PresubmitJob, PostsubmitJob, PeriodicJob, BatchJob}

TriggeredState == "triggered"
PendingState == "pending"
SuccessState == "success"
JobStates == {TriggeredState, PendingState, SuccessState}

\* The longest list of ProwJobs handed to an aggregation function.
MaxJobs == 5

\* Sequences over S of length 0..n.
SeqsUpTo(S, n) == UNION {[1..k -> S] : k \in 0..n}

RECURSIVE Itoa(_)
\* strconv.Itoa: the decimal form of an integer.
Itoa(n) ==
    LET Digit(d) == CASE d = 0 -> "0" [] d = 1 -> "1" [] d = 2 -> "2"
                      [] d = 3 -> "3" [] d = 4 -> "4" [] d = 5 -> "5"
                      [] d = 6 -> "6" [] d = 7 -> "7" [] d = 8 -> "8"
                      [] d = 9 -> "9"
    IN  IF n < 0 THEN "-" \o Itoa(0 - n)
        ELSE IF n < 10 THEN Digit(n)
        ELSE Itoa(n \div 10) \o Digit(n % 10)

\* The name uuid.NewV1 gives the k-th ProwJob of a list.
JobName(k) == "pj" \o Itoa(k)

\* The fields of a kube.ProwJob the aggregation functions read: its name,
\* the type and job of its spec, and the state and start time of its status.
ProwJob(name, type, job, state, start) ==
    [Name |-> name, Type |-> type, Job |-> job, State |-> state,
     StartTime |-> start]

(***************************************************************************)
(* PartitionPending (lines 200-222) and the two consumers its comment      *)
(* describes (lines 195-199).                                              *)
(***************************************************************************)

\* A list handed to PartitionPending: ProwJobs with distinct names, number k
\* in state st[k].
PartitionInput(st) ==
    [k \in DOMAIN st |-> ProwJob(JobName(k), PeriodicJob, "a", st[k], 1)]

Consumers == {"pending", "nonPending"}

\* The mutated test: the job was triggered.
IsTriggered(j) == j.State = TriggeredState

\* pj.Status.State == kube.PendingState (lines 204 and 213)
IsPending(j) == j.State = PendingState

\* The mutated capacity: the count of pending jobs.
PendingCap(n, count) == count

\* len(pjs)-pendingCount (line 209)
NonPendingCap(n, count) == n - count

\* make(chan kube.ProwJob, n): an open channel with an empty buffer of n
MakeChan(n) == [buf |-> <<>>, cap |-> n, closed |-> FALSE]

\* A send completes at once only while the buffer has room: no receiver
\* waits, since the channels are handed out at the return.
CanSend(ch) == Len(ch.buf) < ch.cap

TargetOf(j) == IF IsPending(j) THEN "pending" ELSE "nonPending"

PartInit ==
    /\ \E n \in 0..MaxJobs : \E st \in [1..n -> JobStates] :
          pjs = PartitionInput(st)
    /\ pc = "count"
    /\ idx = 1
    /\ pendingCount = 0
    /\ pending = MakeChan(0)
    /\ nonPending = MakeChan(0)
    /\ got = [c \in Consumers |-> <<>>]
    /\ finished = {}
    /\ spec = <<>>
    /\ LatestOff /\ EnvOff /\ BuildOff /\ HeapOff

\* One turn of the counting loop (lines 203-207).
CountStep ==
    /\ pc = "count"
    /\ idx <= Len(pjs)
    /\ pendingCount' = IF IsPending(pjs[idx]) THEN pendingCount + 1
                       ELSE pendingCount
    /\ idx' = idx + 1
    /\ UNCHANGED <<pjs, pc, pending, nonPending, got, finished>>
    /\ UNCHANGED notPart

\* The two channels are made once the count is known (lines 208-209).
MakeChannels ==
    /\ pc = "count"
    /\ idx > Len(pjs)
    /\ pending' = MakeChan(pendingCount)
    /\ nonPending' = MakeChan(NonPendingCap(Len(pjs), pendingCount))
    /\ pc' = "send"
    /\ idx' = 1
    /\ UNCHANGED <<pjs, pendingCount, got, finished>>
    /\ UNCHANGED notPart

\* One turn of the partition loop (lines 212-218): the send of pjs[idx].
SendStep ==
    /\ pc = "send"
    /\ idx <= Len(pjs)
    /\ IF TargetOf(pjs[idx]) = "pending"
       THEN /\ CanSend(pending)
            /\ pending' = [pending EXCEPT !.buf = Append(@, pjs[idx])]
            /\ UNCHANGED nonPending
       ELSE /\ CanSend(nonPending)
            /\ nonPending' = [nonPending EXCEPT !.buf = Append(@, pjs[idx])]
            /\ UNCHANGED pending
    /\ idx' = idx + 1
    /\ UNCHANGED <<pjs, pc, pendingCount, got, finished>>
    /\ UNCHANGED notPart

\* Both channels are closed and returned (lines 219-221).
CloseAndReturn ==
    /\ pc = "send"
    /\ idx > Len(pjs)
    /\ pending' = [pending EXCEPT !.closed = TRUE]
    /\ nonPending' = [nonPending EXCEPT !.closed = TRUE]
    /\ pc' = "returned"
    /\ UNCHANGED <<pjs, idx, pendingCount, got, finished>>
    /\ UNCHANGED notPart

\* A goroutine ranging over the pending channel: it takes the head of the
\* buffer, or leaves the loop when the channel is closed and drained.
ReceivePending ==
    /\ pc = "returned"
    /\ "pending" \notin finished
    /\ \/ /\ pending.buf # <<>>
          /\ got' = [got EXCEPT !["pending"] = Append(@, Head(pending.buf))]
          /\ pending' = [pending EXCEPT !.buf = Tail(@)]
          /\ UNCHANGED finished
       \/ /\ pending.buf = <<>>
          /\ pending.closed
          /\ finished' = finished \cup {"pending"}
          /\ UNCHANGED <<got, pending>>
    /\ UNCHANGED <<pjs, pc, idx, pendingCount, nonPending>>
    /\ UNCHANGED notPart

\* A goroutine ranging over the nonPending channel.
ReceiveNonPending ==
    /\ pc = "returned"
    /\ "nonPending" \notin finished
    /\ \/ /\ nonPending.buf # <<>>
          /\ got' = [got EXCEPT !["nonPending"] = Append(@, Head(nonPending.buf))]
          /\ nonPending' = [nonPending EXCEPT !.buf = Tail(@)]
          /\ UNCHANGED finished
       \/ /\ nonPending.buf = <<>>
          /\ nonPending.closed
          /\ finished' = finished \cup {"nonPending"}
          /\ UNCHANGED <<got, nonPending>>
    /\ UNCHANGED <<pjs, pc, idx, pendingCount, pending>>
    /\ UNCHANGED notPart

PartNext ==
    \/ CountStep
    \/ MakeChannels
    \/ SendStep
    \/ CloseAndReturn
    \/ ReceivePending
    \/ ReceiveNonPending

SpecPartition == PartInit /\ [][PartNext]_vars

\* What has come out of a channel so far, followed by what it still holds.
Delivered(c) ==
    got[c] \o (IF c = "pending" THEN pending.buf ELSE nonPending.buf)

\* How often x occurs in the sequence s.
Occurrences(s, x) == Cardinality({k \in 1..Len(s) : s[k] = x})

PendingJobs == SelectSeq(pjs, LAMBDA j : j.State = PendingState)
OtherJobs == SelectSeq(pjs, LAMBDA j : j.State # PendingState)

\* C1: once PartitionPending has returned, the pending output is the input's
\* Pending instances in input order, the nonPending output is the other
\* instances in input order, and every input instance is on exactly one
\* output exactly once, whatever the consumers have already received.
C1_PartitionStable ==
    pc = "returned" =>
        /\ Delivered("pending") = PendingJobs
        /\ Delivered("nonPending") = OtherJobs
        /\ \A k \in 1..Len(pjs) :
              Occurrences(Delivered("pending"), pjs[k])
                + Occurrences(Delivered("nonPending"), pjs[k]) = 1

\* Both consumers are through with a list that interleaves two Pending
\* instances with three others.
C1_Witness ==
    /\ finished = Consumers
    /\ Len(pjs) = 5
    /\ \A k \in 1..5 : (pjs[k].State = PendingState) <=> (k \in {2, 4})
    /\ Len(got["pending"]) = 2
    /\ Len(got["nonPending"]) = 3

\* C10: no send of PartitionPending waits (the channel it sends on has room
\* although nobody receives), the capacities are the numbers of Pending and
\* of other instances, both channels are closed at the return, a consumer
\* that is not through always has a value or the close to receive, and a
\* consumer that is through has received exactly its channel's instances.
C10_NeverBlocks ==
    /\ (pc = "send" /\ idx <= Len(pjs)) =>
          IF TargetOf(pjs[idx]) = "pending" THEN CanSend(pending)
          ELSE CanSend(nonPending)
    /\ pc \in {"send", "returned"} =>
          /\ pending.cap = Len(PendingJobs)
          /\ nonPending.cap = Len(OtherJobs)
    /\ pc = "returned" =>
          /\ pending.closed /\ nonPending.closed
          /\ "pending" \notin finished =>
                (pending.buf # <<>> \/ pending.closed)
          /\ "nonPending" \notin finished =>
                (nonPending.buf # <<>> \/ nonPending.closed)
    /\ "pending" \in finished => got["pending"] = PendingJobs
    /\ "nonPending" \in finished => got["nonPending"] = OtherJobs

\* The nonPending consumer finished first while the pending consumer is
\* still in the middle of its channel.
C10_Witness ==
    /\ finished = {"nonPending"}
    /\ Len(got["nonPending"]) >= 2
    /\ Len(got["pending"]) = 1
    /\ Len(pending.buf) = 1

(***************************************************************************)
(* GetLatestPeriodics (lines 226-238).                                     *)
(***************************************************************************)

\* The longest list handed to GetLatestPeriodics, and the latest reading of
\* the clock.
MaxLatestJobs == 3
MaxTime == 2

JobNames == {"a", "b"}

\* The start times of ProwJobs: NewProwJob stamps each with time.Now()
\* (line 42), a time after the zero time.Time, which is 0 here.  The clock
\* may give two ProwJobs the same reading.
StartTimes == 1..MaxTime

\* A list handed to GetLatestPeriodics: ProwJobs with distinct names, number
\* k of type f[k][1], job f[k][2] and start time f[k][3].
LatestInput(f) ==
    [k \in DOMAIN f |->
        ProwJob(JobName(k), f[k][1], f[k][2], TriggeredState, f[k][3])]

\* The zero value of kube.ProwJob, which a Go map gives for a missing key.
ZeroProwJob == ProwJob("", "", "", "", 0)

\* latestJobs[name] (line 233)
MapGet(m, name) == IF name \in DOMAIN m THEN m[name] ELSE ZeroProwJob

\* latestJobs[name] = j (line 234)
MapSet(m, name, j) ==
    [n \in DOMAIN m \cup {name} |-> IF n = name THEN j ELSE m[n]]

\* A faulty variant: not before.
NotBefore(t, u) == t >= u

\* time.Time.After (line 233)
After(t, u) == t > u

\* A faulty variant: every type passes.
AnyType(j) == TRUE

\* j.Spec.Type != kube.PeriodicJob is false (line 229)
IsPeriodic(j) == j.Type = PeriodicJob

LatestInit ==
    /\ \E n \in 0..MaxLatestJobs :
          \E f \in [1..n -> {PeriodicJob, PresubmitJob} \X JobNames \X StartTimes] :
             pjs = LatestInput(f)
    /\ pc = "loop"
    /\ idx = 1
    /\ latestJobs = <<>>
    /\ spec = <<>>
    /\ PartOff /\ EnvOff /\ BuildOff /\ HeapOff

\* One turn of the loop (lines 228-236).
LatestStep ==
    /\ pc = "loop"
    /\ idx <= Len(pjs)
    /\ LET j == pjs[idx]
       IN  latestJobs' =
              IF ~IsPeriodic(j) THEN latestJobs
              ELSE IF After(j.StartTime, MapGet(latestJobs, j.Job).StartTime)
                   THEN MapSet(latestJobs, j.Job, j)
                   ELSE latestJobs
    /\ idx' = idx + 1
    /\ UNCHANGED <<pjs, pc>>
    /\ UNCHANGED notLatest

\* The map is returned (line 237).
LatestReturn ==
    /\ pc = "loop"
    /\ idx > Len(pjs)
    /\ pc' = "returned"
    /\ UNCHANGED <<pjs, idx, latestJobs>>
    /\ UNCHANGED notLatest

LatestNext ==
    \/ LatestStep
    \/ LatestReturn

SpecLatest == LatestInit /\ [][LatestNext]_vars

\* The positions of the periodic ProwJobs of a job name in the input.
PeriodicsOf(name) ==
    {k \in 1..Len(pjs) : pjs[k].Type = PeriodicJob /\ pjs[k].Job = name}

\* Two periodic ProwJobs of one job name with the same start time, i before
\* j in the input.
Tied(i, j) ==
    /\ i < j
    /\ pjs[i].Type = PeriodicJob /\ pjs[j].Type = PeriodicJob
    /\ pjs[i].Job = pjs[j].Job
    /\ pjs[i].StartTime = pjs[j].StartTime

\* C5 as stated: of two periodic ProwJobs of one job name with equal start
\* times, when the result keeps one of them it keeps the later one of the
\* input.
C5_LaterWinsOnTies ==
    pc = "returned" =>
        \A i, j \in 1..Len(pjs) :
            (Tied(i, j) /\ pjs[i].Job \in DOMAIN latestJobs
                /\ latestJobs[pjs[i].Job] \in {pjs[i], pjs[j]})
            => latestJobs[pjs[i].Job] = pjs[j]

\* C5 as amended: of two periodic ProwJobs of one job name with equal start
\* times the later one of the input is never the one kept; the result keeps,
\* for each name, the first in input order of those with the latest start
\* time.
C5_EarlierWinsOnTies ==
    pc = "returned" =>
        /\ \A i, j \in 1..Len(pjs) :
              (Tied(i, j) /\ pjs[i].Job \in DOMAIN latestJobs)
              => latestJobs[pjs[i].Job] # pjs[j]
        /\ \A name \in DOMAIN latestJobs :
              \E k \in PeriodicsOf(name) :
                 /\ latestJobs[name] = pjs[k]
                 /\ \A m \in PeriodicsOf(name) :
                       \/ pjs[m].StartTime < pjs[k].StartTime
                       \/ (pjs[m].StartTime = pjs[k].StartTime /\ k <= m)

\* The function has returned for a list with two periodic ProwJobs of one
\* name tied at the latest start time, and the first of them was kept.
C5_Witness ==
    /\ pc = "returned"
    /\ \E i, j \in 1..Len(pjs) :
          /\ Tied(i, j)
          /\ pjs[i].Job \in DOMAIN latestJobs
          /\ latestJobs[pjs[i].Job] = pjs[i]

\* C6: the keys of the result are exactly the job names of the periodic
\* ProwJobs of the input, and the ProwJob under each name is a periodic
\* ProwJob of the input with that name whose start time is not before that
\* of any other periodic ProwJob of the name.
C6_LatestPerName ==
    pc = "returned" =>
        /\ DOMAIN latestJobs =
              {pjs[k].Job : k \in {m \in 1..Len(pjs) : pjs[m].Type = PeriodicJob}}
        /\ \A name \in DOMAIN latestJobs :
              /\ \E k \in PeriodicsOf(name) : latestJobs[name] = pjs[k]
              /\ \A m \in PeriodicsOf(name) :
                    pjs[m].StartTime <= latestJobs[name].StartTime

\* The function has returned for a list where a name is carried only by a
\* ProwJob that is not periodic, and where the later of two periodic
\* ProwJobs of another name started first.
C6_Witness ==
    /\ pc = "returned"
    /\ Len(pjs) = 3
    /\ \E name \in JobNames :
          /\ name \notin DOMAIN latestJobs
          /\ \E k \in 1..3 : pjs[k].Job = name
    /\ \E i, j \in 1..3 :
          /\ i < j
          /\ pjs[i].Job = pjs[j].Job
          /\ pjs[i].Type = PeriodicJob /\ pjs[j].Type = PeriodicJob
          /\ pjs[i].StartTime > pjs[j].StartTime
          /\ latestJobs[pjs[i].Job] = pjs[i]
(***************************************************************************)
(* EnvForSpec (lines 173-193).                                             *)
(***************************************************************************)

\* The most pull requests a Refs carries.
MaxPulls == 2

PullNumbers == {-3, 0, 42, 105}
PullSHAs == {"def456", "fed789"}
Pulls == [Number : PullNumbers, SHA : PullSHAs]

\* kube.Refs values.
RefsSet ==
    [Org : {"kubernetes"}, Repo : {"test-infra", "kubernetes"},
     BaseRef : {"master"}, BaseSHA : {"abc123"},
     Pulls : SeqsUpTo(Pulls, MaxPulls)]

RECURSIVE PullsString(_)
\* The pull requests of a Refs as ",<number>:<sha>" each.
PullsString(pulls) ==
    IF pulls = <<>> THEN ""
    ELSE "," \o Itoa(Head(pulls).Number) \o ":" \o Head(pulls).SHA
             \o PullsString(Tail(pulls))

\* kube.Refs.String: "<base ref>:<base sha>" and then the pull requests.
RefsString(r) == r.BaseRef \o ":" \o r.BaseSHA \o PullsString(r.Pulls)

\* env[key] = value
EnvSet(m, key, value) == (key :> value) @@ m

\* A faulty variant: the last pull request.
LastPull(r) == r.Pulls[Len(r.Pulls)]

\* spec.Refs.Pulls[0] (lines 190-191)
FirstPull(r) == r.Pulls[1]

\* Indexing Pulls[0] of an empty list panics (line 190).
EnvPanics(s) ==
    s.Type \notin {PeriodicJob, PostsubmitJob, BatchJob} /\ s.Refs.Pulls = <<>>

\* The map EnvForSpec returns when it does not panic.
EnvForSpec(s) ==
    LET jobEnv == EnvSet(<<>>, "JOB_NAME", s.Job)
        refsEnv ==
            EnvSet(EnvSet(EnvSet(EnvSet(EnvSet(jobEnv,
                "REPO_OWNER", s.Refs.Org),
                "REPO_NAME", s.Refs.Repo),
                "PULL_BASE_REF", s.Refs.BaseRef),
                "PULL_BASE_SHA", s.Refs.BaseSHA),
                "PULL_REFS", RefsString(s.Refs))
    IN  IF s.Type = PeriodicJob THEN jobEnv
        ELSE IF s.Type = PostsubmitJob \/ s.Type = BatchJob THEN refsEnv
        ELSE EnvSet(EnvSet(refsEnv,
                "PULL_NUMBER", Itoa(FirstPull(s.Refs).Number)),
                "PULL_PULL_SHA", FirstPull(s.Refs).SHA)

EnvInit ==
    /\ spec \in [Type : JobTypes, Job : JobNames, Refs : RefsSet]
    /\ pc = "call"
    /\ env = <<>>
    /\ ListOff /\ PartOff /\ LatestOff /\ BuildOff /\ HeapOff

\* A call of EnvForSpec: it returns the map, or panics.
CallEnvForSpec ==
    /\ pc = "call"
    /\ IF EnvPanics(spec)
       THEN pc' = "panicked" /\ UNCHANGED env
       ELSE pc' = "returned" /\ env' = EnvForSpec(spec)
    /\ UNCHANGED spec
    /\ UNCHANGED notEnv

EnvNext == CallEnvForSpec

SpecEnv == EnvInit /\ [][EnvNext]_vars

RefsKeys ==
    {"JOB_NAME", "REPO_OWNER", "REPO_NAME", "PULL_BASE_REF", "PULL_BASE_SHA",
     "PULL_REFS"}

\* C2: the keys of the returned map depend on the job type alone: JOB_NAME
\* for a periodic; the six keys of the refs for a postsubmit and a batch;
\* those and PULL_NUMBER and PULL_PULL_SHA, with the number in decimal and
\* the SHA of the first pull request, for a presubmit with a pull request.
\* JOB_NAME is the job of the spec.
C2_EnvKeys ==
    pc = "returned" =>
        /\ env["JOB_NAME"] = spec.Job
        /\ spec.Type = PeriodicJob => DOMAIN env = {"JOB_NAME"}
        /\ spec.Type \in {PostsubmitJob, BatchJob} => DOMAIN env = RefsKeys
        /\ (spec.Type = PresubmitJob /\ spec.Refs.Pulls # <<>>) =>
              /\ DOMAIN env = RefsKeys \cup {"PULL_NUMBER", "PULL_PULL_SHA"}
              /\ env["PULL_NUMBER"] = Itoa(spec.Refs.Pulls[1].Number)
              /\ env["PULL_PULL_SHA"] = spec.Refs.Pulls[1].SHA

\* EnvForSpec has returned for a presubmit with two different pull requests,
\* the first of them number 42.
C2_Witness ==
    /\ pc = "returned"
    /\ spec.Type = PresubmitJob
    /\ Len(spec.Refs.Pulls) = 2
    /\ spec.Refs.Pulls[1] = [Number |-> 42, SHA |-> "def456"]
    /\ spec.Refs.Pulls[2] = [Number |-> 105, SHA |-> "fed789"]
    /\ env["PULL_NUMBER"] = "42"
    /\ env["PULL_PULL_SHA"] = "def456"
    /\ env["PULL_REFS"] = "master:abc123,42:def456,105:fed789"
(***************************************************************************)
(* The spec builders: PresubmitSpec (lines 49-68), PostsubmitSpec (lines   *)
(* 71-86), PeriodicSpec (lines 89-102) and BatchSpec (lines 105-120).      *)
(***************************************************************************)

\* The most jobs in one tree of job configuration.
MaxNodes == 3

KubernetesAgent == "kubernetes"
JenkinsAgent == "jenkins"

\* A kube.PodSpec as the builders see it, and its zero value.
SomePodSpec == [RestartPolicy |-> "Always", Containers |-> <<"test">>]
ZeroPodSpec == [RestartPolicy |-> "", Containers |-> <<>>]

\* The Spec field of a job configuration, a *kube.PodSpec: nil, or a pointer
\* to a pod spec.
NilPtr == [isNil |-> TRUE, val |-> ZeroPodSpec]
PtrTo(v) == [isNil |-> FALSE, val |-> v]

\* The zero value of kube.Refs.
ZeroRefs == [Org |-> "", Repo |-> "", BaseRef |-> "", BaseSHA |-> "",
             Pulls |-> <<>>]

\* A job configuration with its follow-up jobs.
Template(f, kids) ==
    [Name |-> f[1], Agent |-> f[2], Spec |-> f[3], MaxConcurrency |-> f[4],
     Context |-> "ctx-" \o f[1], RerunCommand |-> "/test " \o f[1],
     SkipReport |-> FALSE, RunAfterSuccess |-> kids]

\* The fields of one job configuration the builders read: name, agent, pod
\* spec pointer and max concurrency.
TemplateFields ==
    JobNames \X {KubernetesAgent, JenkinsAgent} \X {NilPtr, PtrTo(SomePodSpec)}
        \X {2}

RECURSIVE Trees(_), Forests(_)
\* The trees of job configuration of at most n jobs (n >= 1).
Trees(n) == {Template(f, kids) : f \in TemplateFields, kids \in Forests(n - 1)}

\* The lists of such trees of at most n jobs together.
Forests(n) ==
    {<<>>} \cup
    UNION {{<<t>> \o rest : t \in Trees(k), rest \in Forests(n - k)} :
             k \in 1..n}

\* Refs of one pull request, and those of them for the repository
\* test-infra.
BuildRefs == {r \in RefsSet : r.Pulls = <<[Number |-> 42, SHA |-> "def456"]>>}
TestInfraRefs == {r \in BuildRefs : r.Repo = "test-infra"}

\* The two ways a call ends.
Panicked == [panic |-> TRUE, val |-> <<>>]
Returned(v) == [panic |-> FALSE, val |-> v]

\* A faulty variant: a nil Spec is read as the zero pod spec.
NeverPanics(p) == FALSE

\* pjs.PodSpec = *p.Spec panics for a nil p.Spec (lines 62, 80, 96, 114).
DerefPanics(p) == p.Agent = KubernetesAgent /\ p.Spec.isNil

\* The PodSpec of the built spec (lines 60-63, 78-81, 94-97, 112-115).
PodSpecOf(p) == IF p.Agent = KubernetesAgent THEN p.Spec.val ELSE ZeroPodSpec

\* A faulty variant: the follow-ups come out in reverse order.
FinishReversed(p, kids, v) ==
    IF DerefPanics(p) \/ \E k \in 1..Len(kids) : kids[k].panic THEN Panicked
    ELSE Returned([v EXCEPT !.RunAfterSuccess =
                      [k \in 1..Len(kids) |-> kids[Len(kids) + 1 - k].val]])

\* What a builder returns for p given what it returned for the follow-up
\* jobs: a panic of the dereference or of a nested call ends the call.
Finish(p, kids, v) ==
    IF DerefPanics(p) \/ \E k \in 1..Len(kids) : kids[k].panic THEN Panicked
    ELSE Returned([v EXCEPT !.RunAfterSuccess =
                      [k \in 1..Len(kids) |-> kids[k].val]])

RECURSIVE PresubmitSpec(_, _)
PresubmitSpec(p, r) ==
    Finish(p,
        [k \in 1..Len(p.RunAfterSuccess) |->
            PresubmitSpec(p.RunAfterSuccess[k], r)],
        [Type |-> PresubmitJob, Job |-> p.Name, Refs |-> r,
         Report |-> ~p.SkipReport, Context |-> p.Context,
         RerunCommand |-> p.RerunCommand,
         MaxConcurrency |-> p.MaxConcurrency,
         Agent |-> p.Agent, PodSpec |-> PodSpecOf(p),
         RunAfterSuccess |-> <<>>])

RECURSIVE PostsubmitSpec(_, _)
PostsubmitSpec(p, r) ==
    Finish(p,
        [k \in 1..Len(p.RunAfterSuccess) |->
            PostsubmitSpec(p.RunAfterSuccess[k], r)],
        [Type |-> PostsubmitJob, Job |-> p.Name, Refs |-> r,
         Report |-> FALSE, Context |-> "", RerunCommand |-> "",
         MaxConcurrency |-> p.MaxConcurrency,
         Agent |-> p.Agent, PodSpec |-> PodSpecOf(p),
         RunAfterSuccess |-> <<>>])

RECURSIVE PeriodicSpec(_)
PeriodicSpec(p) ==
    Finish(p,
        [k \in 1..Len(p.RunAfterSuccess) |->
            PeriodicSpec(p.RunAfterSuccess[k])],
        [Type |-> PeriodicJob, Job |-> p.Name, Refs |-> ZeroRefs,
         Report |-> FALSE, Context |-> "", RerunCommand |-> "",
         MaxConcurrency |-> 0,
         Agent |-> p.Agent, PodSpec |-> PodSpecOf(p),
         RunAfterSuccess |-> <<>>])

RECURSIVE BatchSpec(_, _)
BatchSpec(p, r) ==
    Finish(p,
        [k \in 1..Len(p.RunAfterSuccess) |->
            BatchSpec(p.RunAfterSuccess[k], r)],
        [Type |-> BatchJob, Job |-> p.Name, Refs |-> r,
         Report |-> FALSE, Context |-> p.Context, RerunCommand |-> "",
         MaxConcurrency |-> 0,
         Agent |-> p.Agent, PodSpec |-> PodSpecOf(p),
         RunAfterSuccess |-> <<>>])

BuildInit ==
    /\ template \in Trees(MaxNodes)
    /\ refs \in TestInfraRefs
    /\ builder = ""
    /\ built = <<>>
    /\ pc = "call"
    /\ spec = <<>>
    /\ ListOff /\ PartOff /\ LatestOff /\ EnvOff /\ HeapOff

CallPresubmitSpec ==
    /\ pc = "call"
    /\ builder' = PresubmitJob
    /\ built' = PresubmitSpec(template, refs)
    /\ pc' = "done"
    /\ UNCHANGED <<template, refs>>
    /\ UNCHANGED notBuild

CallPostsubmitSpec ==
    /\ pc = "call"
    /\ builder' = PostsubmitJob
    /\ built' = PostsubmitSpec(template, refs)
    /\ pc' = "done"
    /\ UNCHANGED <<template, refs>>
    /\ UNCHANGED notBuild

CallPeriodicSpec ==
    /\ pc = "call"
    /\ builder' = PeriodicJob
    /\ built' = PeriodicSpec(template)
    /\ pc' = "done"
    /\ UNCHANGED <<template, refs>>
    /\ UNCHANGED notBuild

CallBatchSpec ==
    /\ pc = "call"
    /\ builder' = BatchJob
    /\ built' = BatchSpec(template, refs)
    /\ pc' = "done"
    /\ UNCHANGED <<template, refs>>
    /\ UNCHANGED notBuild

BuildNext ==
    \/ CallPresubmitSpec
    \/ CallPostsubmitSpec
    \/ CallPeriodicSpec
    \/ CallBatchSpec

SpecBuild == BuildInit /\ [][BuildNext]_vars

RECURSIVE Mirrors(_, _, _)
\* The spec tree v mirrors the configuration tree p: the tag of the builder,
\* the name of p, the max concurrency of p where it is copied and zero where
\* not, the refs handed in (none for a periodic), and follow-ups that mirror
\* p's, one for one and in order.
Mirrors(v, p, copied) ==
    /\ v.Type = builder
    /\ v.Job = p.Name
    /\ v.MaxConcurrency = IF copied THEN p.MaxConcurrency ELSE 0
    /\ IF builder = PeriodicJob THEN v.Refs = ZeroRefs ELSE v.Refs = refs
    /\ Len(v.RunAfterSuccess) = Len(p.RunAfterSuccess)
    /\ \A k \in 1..Len(p.RunAfterSuccess) :
          Mirrors(v.RunAfterSuccess[k], p.RunAfterSuccess[k], copied)

\* C7 as stated: the tree each of the four builders returns mirrors the
\* tree of job configuration at every depth: same length and order of the
\* follow-ups, the builder's type on every node, and on every node the name
\* and max concurrency of its configuration (and the refs, but for periodic).
C7_SpecMirrorsTemplate ==
    (pc = "done" /\ ~built.panic) =>
        Mirrors(built.val, template, TRUE)

\* C7 as amended: the same, but that the max concurrency of a node is that
\* of its configuration only for PresubmitSpec and PostsubmitSpec; on every
\* node PeriodicSpec and BatchSpec build it is zero.
C7_SpecMirrorsTemplateButConcurrency ==
    (pc = "done" /\ ~built.panic) =>
        Mirrors(built.val, template, builder \in {PresubmitJob, PostsubmitJob})

\* BatchSpec has returned for a configuration of max concurrency 2 with two
\* follow-ups of different names, the second of max concurrency 2 too.
C7_Witness ==
    /\ pc = "done"
    /\ builder = BatchJob
    /\ ~built.panic
    /\ template.MaxConcurrency = 2
    /\ Len(template.RunAfterSuccess) = 2
    /\ template.RunAfterSuccess[1].Name = "a"
    /\ template.RunAfterSuccess[2].Name = "b"
    /\ template.RunAfterSuccess[2].MaxConcurrency = 2
    /\ built.val.MaxConcurrency = 0
    /\ built.val.RunAfterSuccess[2].Job = "b"

RECURSIVE HasNilSpec(_)
\* Some job of the tree has the Kubernetes agent and a nil Spec.
HasNilSpec(p) ==
    \/ p.Agent = KubernetesAgent /\ p.Spec.isNil
    \/ \E k \in 1..Len(p.RunAfterSuccess) : HasNilSpec(p.RunAfterSuccess[k])

\* C9 as stated: every call of a builder returns; for the Kubernetes agent
\* and a nil Spec the returned spec has the zero PodSpec, and for any other
\* agent too, whatever the Spec of the configuration.
C9_BuildersTotal ==
    pc = "done" =>
        /\ ~built.panic
        /\ (template.Agent = KubernetesAgent /\ template.Spec.isNil) =>
              built.val.PodSpec = ZeroPodSpec
        /\ template.Agent # KubernetesAgent =>
              built.val.PodSpec = ZeroPodSpec

\* C9 as amended: a call of a builder panics exactly when a job of the tree
\* has the Kubernetes agent and a nil Spec; a call that returns gives the
\* pod spec of the configuration for the Kubernetes agent, and the zero
\* PodSpec for any other agent, whatever the Spec of the configuration.
C9_BuildersPanicOnNilSpec ==
    pc = "done" =>
        /\ built.panic <=> HasNilSpec(template)
        /\ ~built.panic =>
              built.val.PodSpec =
                 IF template.Agent = KubernetesAgent THEN template.Spec.val
                 ELSE ZeroPodSpec

\* A builder was called for the Kubernetes agent and a nil Spec, and
\* panicked.
C9_Witness ==
    /\ pc = "done"
    /\ template.Agent = KubernetesAgent
    /\ template.Spec.isNil
    /\ template.RunAfterSuccess = <<>>
    /\ built.panic

(***************************************************************************)
(* The memory of the Go program.  A map value and a slice value refer to   *)
(* an object of the heap: copying the value copies the reference.  heap is *)
(* the sequence of the objects made so far, an address is an index of it,  *)
(* and address 0 is nil.                                                   *)
(***************************************************************************)

\* A map[string]string object, an array of kube.EnvVar and an array of
\* kube.Container.
MapObject(m) == [kind |-> "map", cells |-> m]
EnvArray(cells) == [kind |-> "env", cells |-> cells]
ContainerArray(cells) == [kind |-> "container", cells |-> cells]

\* A slice value: its array, its length and its capacity.  The nil slice.
Slice(a, n, c) == [arr |-> a, len |-> n, cap |-> c]
NilSlice == Slice(0, 0, 0)

\* The elements of a slice.
SliceCells(h, s) ==
    IF s.len = 0 THEN <<>> ELSE SubSeq(h[s.arr].cells, 1, s.len)

\* The entries of a map; a nil map has none.
MapCells(h, a) == IF a = 0 THEN <<>> ELSE h[a].cells

\* append(s, xs...) for a slice of kube.EnvVar: within the capacity the
\* elements are written to the array of s behind its length; beyond it they
\* go, after a copy of the elements of s, to a new array.
AppendEnv(h, s, xs) ==
    IF s.len + Len(xs) <= s.cap
    THEN [heap |-> [h EXCEPT ![s.arr].cells =
                       [k \in 1..s.cap |->
                           IF k > s.len /\ k <= s.len + Len(xs)
                           THEN xs[k - s.len] ELSE @[k]]],
          slice |-> Slice(s.arr, s.len + Len(xs), s.cap)]
    ELSE [heap |-> Append(h, EnvArray(SliceCells(h, s) \o xs)),
          slice |-> Slice(Len(h) + 1, s.len + Len(xs), s.len + Len(xs))]

(***************************************************************************)
(* NewProwJob (lines 32-46).                                               *)
(***************************************************************************)

\* The names uuid.NewV1 may give.
UUIDs == {"job-xyz", "job-abc"}

\* A faulty variant: the ProwJob gets a copy of the label map.
NewProwJobCopy(h, s, l, name, t) ==
    [heap |-> Append(h, MapObject(MapCells(h, l))),
     pj |-> [APIVersion |-> "prow.k8s.io/v1", Kind |-> "ProwJob",
             Name |-> name, Labels |-> Len(h) + 1, Spec |-> s,
             Status |-> [StartTime |-> t, State |-> TriggeredState]]]

\* NewProwJob(spec, labels) with the name and the time it draws: the heap
\* as it leaves it, and the ProwJob it returns.  Labels is the map handed in.
NewProwJob(h, s, l, name, t) ==
    [heap |-> h,
     pj |-> [APIVersion |-> "prow.k8s.io/v1", Kind |-> "ProwJob",
             Name |-> name, Labels |-> l, Spec |-> s,
             Status |-> [StartTime |-> t, State |-> TriggeredState]]]

\* The label maps a caller hands in: nil, or a map of these entries.
LabelMaps ==
    {<<>>, ("k1" :> "v1"), ("k1" :> "v1") @@ ("k2" :> "v2")}

\* The keys a caller or a holder of the ProwJob writes later.
LaterKeys == {"k1", "k3"}

\* A ProwJobSpec whose pod spec has the containers of the slice c.
JobSpec(type, job, r, c) ==
    [Type |-> type, Job |-> job, Refs |-> r, Agent |-> KubernetesAgent,
     PodSpec |-> [RestartPolicy |-> "Always", Containers |-> c]]

NewInit ==
    /\ spec \in {JobSpec(type, job, r, NilSlice) :
                    type \in JobTypes, job \in JobNames, r \in BuildRefs}
    /\ \E m \in LabelMaps, isNil \in BOOLEAN :
          /\ heap = IF isNil THEN <<>> ELSE <<MapObject(m)>>
          /\ labels = IF isNil THEN 0 ELSE 1
    /\ now \in StartTimes
    /\ pj = <<>>
    /\ pod = <<>>
    /\ pc = "call"
    /\ ListOff /\ PartOff /\ LatestOff /\ EnvOff /\ BuildOff

\* A call of NewProwJob.
CallNewProwJob ==
    /\ pc = "call"
    /\ \E name \in UUIDs :
          LET r == NewProwJob(heap, spec, labels, name, now)
          IN  heap' = r.heap /\ pj' = r.pj
    /\ pc' = "built"
    /\ UNCHANGED <<spec, labels, now, pod>>
    /\ UNCHANGED notHeap

\* After the call the caller writes an entry of the map it handed in.
CallerSetsLabel ==
    /\ pc = "built"
    /\ labels # 0
    /\ \E k \in LaterKeys :
          heap' = [heap EXCEPT ![labels].cells = EnvSet(@, k, "caller")]
    /\ UNCHANGED <<pc, spec, labels, now, pj, pod>>
    /\ UNCHANGED notHeap

\* After the call a holder of the ProwJob writes an entry of its labels.
InstanceSetsLabel ==
    /\ pc = "built"
    /\ pj.Labels # 0
    /\ \E k \in LaterKeys :
          heap' = [heap EXCEPT ![pj.Labels].cells = EnvSet(@, k, "holder")]
    /\ UNCHANGED <<pc, spec, labels, now, pj, pod>>
    /\ UNCHANGED notHeap

NewNext ==
    \/ CallNewProwJob
    \/ CallerSetsLabel
    \/ InstanceSetsLabel

SpecNew == NewInit /\ [][NewNext]_vars

\* The labels of the ProwJob and the entries of the caller's map.
InstanceLabels == MapCells(heap, pj.Labels)
CallerLabels == MapCells(heap, labels)

\* C8 as stated: the ProwJob holds its own copy of the label map: a write of
\* the caller to its map leaves the labels of the ProwJob as they were, and
\* a write through the labels of the ProwJob leaves the caller's map as it
\* was.
C8_LabelsCopied ==
    [][(pc = "built" /\ pc' = "built") =>
          /\ CallerSetsLabel => InstanceLabels' = InstanceLabels
          /\ InstanceSetsLabel => CallerLabels' = CallerLabels]_vars

\* C8 as amended: the ProwJob holds the very map the caller handed in: at
\* any time after the call its labels are the entries of the caller's map,
\* so that a write through one is seen through the other.
C8_LabelsShared ==
    pc = "built" =>
        /\ pj.Labels = labels
        /\ InstanceLabels = CallerLabels

\* After the call the caller has added k3 and a holder of the ProwJob has
\* overwritten k1, and both see both writes.
C8_Witness ==
    /\ pc = "built"
    /\ labels # 0
    /\ "k3" \in DOMAIN CallerLabels /\ CallerLabels["k3"] = "caller"
    /\ "k3" \in DOMAIN InstanceLabels /\ InstanceLabels["k3"] = "caller"
    /\ "k1" \in DOMAIN CallerLabels /\ CallerLabels["k1"] = "holder"
(***************************************************************************)
(* ProwJobToPod (lines 123-155) and kubeEnv (lines 159-169).               *)
(***************************************************************************)

\* The most containers of a pod spec, the most environment variables a
\* container brings along, and the most spare capacity behind them.
MaxContainers == 2
MaxEnvLen == 1
MaxSpare == 2

\* Label and annotation keys of package kube.
CreatedByProw == "created-by-prow"
ProwJobTypeLabel == "prow.k8s.io/type"
ProwJobAnnotation == "prow.k8s.io/job"

EnvVar(name, value) == [Name |-> name, Value |-> value]

\* The keys of an environment in a fixed cyclic order.
EnvKeyOrder ==
    <<"BUILD_NUMBER", "JOB_NAME", "PULL_BASE_REF", "PULL_BASE_SHA",
      "PULL_NUMBER", "PULL_PULL_SHA", "PULL_REFS", "REPO_NAME", "REPO_OWNER">>

EnvKeys(environment) ==
    SelectSeq(EnvKeyOrder, LAMBDA k : k \in DOMAIN environment)

\* kubeEnv: the entries of the map as a list of kube.EnvVar.  Go leaves the
\* order of a range over a map open and starts it at a random entry: the
\* list starts at entry number start and goes round.
kubeEnv(environment, start) ==
    LET keys == EnvKeys(environment)
        n == Len(keys)
    IN  [i \in 1..n |->
            LET key == keys[((i + start - 2) % n) + 1]
            IN  EnvVar(key, environment[key])]

\* The containers of a ProwJob.
ContainersOf(h, p) == SliceCells(h, p.Spec.PodSpec.Containers)

RECURSIVE ProjectInPlaceFrom(_, _, _, _)
ProjectInPlaceFrom(h, p, xs, i) ==
    IF i > p.Spec.PodSpec.Containers.len
    THEN [heap |-> h, slice |-> p.Spec.PodSpec.Containers]
    ELSE LET c == ContainersOf(h, p)[i]
             r == AppendEnv(h, c.Env, xs)
             a == p.Spec.PodSpec.Containers.arr
         IN  ProjectInPlaceFrom(
                 [r.heap EXCEPT ![a].cells[i] =
                     [c EXCEPT !.Name = p.Name \o "-" \o Itoa(i - 1),
                               !.Env = r.slice]],
                 p, xs, i + 1)

\* A faulty variant: the containers of the ProwJob are renamed and extended
\* where they are, in the array of the ProwJob.
ProjectInPlace(h, p, xs) == ProjectInPlaceFrom(h, p, xs, 1)

RECURSIVE ProjectFrom(_, _, _, _, _)
\* The loop of lines 134-138 from container i on, acc being the containers
\* appended to spec.Containers so far.  Each turn copies container i of the
\* ProwJob, renames the copy and appends the environment to the Env slice of
\* the copy.  spec.Containers starts empty (line 133), so that its appends
\* end in an array of its own.
ProjectFrom(h, p, xs, i, acc) ==
    IF i > p.Spec.PodSpec.Containers.len
    THEN [heap |-> Append(h, ContainerArray(acc)),
          slice |-> Slice(Len(h) + 1, Len(acc), Len(acc))]
    ELSE LET c == ContainersOf(h, p)[i]
             r == AppendEnv(h, c.Env, xs)
         IN  ProjectFrom(r.heap, p, xs, i + 1,
                 Append(acc, [c EXCEPT !.Name = p.Name \o "-" \o Itoa(i - 1),
                                       !.Env = r.slice]))

\* Lines 133-138: the containers of the pod.
ProjectContainers(h, p, xs) == ProjectFrom(h, p, xs, 1, <<>>)

\* Lines 139-144: the labels of the pod, in a map of its own.
PodLabels(h, p) ==
    EnvSet(EnvSet(MapCells(h, p.Labels), CreatedByProw, "true"),
           ProwJobTypeLabel, p.Spec.Type)

\* ProwJobToPod(pj, buildID), the range of kubeEnv starting at entry number
\* start: the heap as it leaves it, and the pod it returns.
ProwJobToPod(h, p, buildID, start) ==
    LET environment == EnvSet(EnvForSpec(p.Spec), "BUILD_NUMBER", buildID)
        r == ProjectContainers(h, p, kubeEnv(environment, start))
        h2 == Append(r.heap, MapObject(PodLabels(h, p)))
        h3 == Append(h2, MapObject(ProwJobAnnotation :> p.Spec.Job))
    IN  [heap |-> h3,
         pod |-> [Name |-> p.Name,
                  Labels |-> Len(h2),
                  Annotations |-> Len(h3),
                  Spec |-> [RestartPolicy |-> "Never",
                            Containers |-> r.slice]]]

\* The Env slice of a container of the job configuration: n variables and
\* room for extra more, in an array at address a; nil when it has no room.
ConfigEnv(a, n, extra) ==
    IF n + extra = 0 THEN NilSlice ELSE Slice(a, n, n + extra)

\* The heap of a pod spec whose container number i has the Env slice of
\* shape shapes[i] = <<length, spare capacity>>: one array for each Env
\* slice, as a decoder of the configuration makes them, and behind them the
\* array of the containers.
ConfigHeap(shapes) ==
    LET n == Len(shapes)
    IN  [a \in 1..n |->
            EnvArray([k \in 1..(shapes[a][1] + shapes[a][2]) |->
                IF k <= shapes[a][1]
                THEN EnvVar("VAR" \o Itoa(k), "value" \o Itoa(a - 1))
                ELSE EnvVar("", "")])]
        \o <<ContainerArray([a \in 1..n |->
                [Name |-> "test" \o Itoa(a - 1),
                 Env |-> ConfigEnv(a, shapes[a][1], shapes[a][2])]])>>

EnvShapes == SeqsUpTo((0..MaxEnvLen) \X (0..MaxSpare), MaxContainers)

\* The ProwJob handed to ProwJobToPod: NewProwJob made it from a spec with
\* these containers and from a label map.
PodInit ==
    /\ \E shapes \in EnvShapes, type \in JobTypes,
          r \in TestInfraRefs,
          m \in {<<>>, ("k1" :> "v1")} :
          LET n == Len(shapes)
              made == NewProwJob(
                         Append(ConfigHeap(shapes), MapObject(m)),
                         JobSpec(type, "a", r, Slice(n + 1, n, n)),
                         n + 2, "job-xyz", 1)
          IN  /\ spec = made.pj.Spec
              /\ labels = made.pj.Labels
              /\ heap = made.heap
              /\ pj = made.pj
    /\ now = 1
    /\ pod = <<>>
    /\ pc = "built"
    /\ ListOff /\ PartOff /\ LatestOff /\ EnvOff /\ BuildOff

\* A call of ProwJobToPod for the ProwJob.
CallProwJobToPod ==
    /\ pc = "built"
    /\ \E buildID \in {"7"}, start \in 1..Len(EnvKeyOrder) :
          /\ start <= Cardinality(DOMAIN EnvForSpec(pj.Spec)) + 1
          /\ LET r == ProwJobToPod(heap, pj, buildID, start)
             IN  heap' = r.heap /\ pod' = r.pod
    /\ pc' = "projected"
    /\ UNCHANGED <<spec, labels, now, pj>>
    /\ UNCHANGED notHeap

\* The holder of the pod writes a label of the pod.
SetPodLabel ==
    /\ pc = "projected"
    /\ \E k \in {"k1", CreatedByProw} :
          heap' = [heap EXCEPT ![pod.Labels].cells = EnvSet(@, k, "changed")]
    /\ pc' = "mutated"
    /\ UNCHANGED <<spec, labels, now, pj, pod>>
    /\ UNCHANGED notHeap

\* The holder of the pod writes the annotation of the pod.
SetPodAnnotation ==
    /\ pc = "projected"
    /\ heap' = [heap EXCEPT ![pod.Annotations].cells =
                   EnvSet(@, ProwJobAnnotation, "changed")]
    /\ pc' = "mutated"
    /\ UNCHANGED <<spec, labels, now, pj, pod>>
    /\ UNCHANGED notHeap

\* The holder of the pod writes the name of a container of the pod.
SetPodContainerName ==
    /\ pc = "projected"
    /\ \E i \in 1..pod.Spec.Containers.len :
          heap' = [heap EXCEPT
                      ![pod.Spec.Containers.arr].cells[i].Name = "changed"]
    /\ pc' = "mutated"
    /\ UNCHANGED <<spec, labels, now, pj, pod>>
    /\ UNCHANGED notHeap

\* The holder of the pod writes the value of an environment variable of a
\* container of the pod.
SetPodEnvValue ==
    /\ pc = "projected"
    /\ \E i \in 1..pod.Spec.Containers.len :
          LET e == heap[pod.Spec.Containers.arr].cells[i].Env
          IN  \E k \in 1..e.len :
                 heap' = [heap EXCEPT ![e.arr].cells[k].Value = "changed"]
    /\ pc' = "mutated"
    /\ UNCHANGED <<spec, labels, now, pj, pod>>
    /\ UNCHANGED notHeap

PodNext ==
    \/ CallProwJobToPod
    \/ SetPodLabel
    \/ SetPodAnnotation
    \/ SetPodContainerName
    \/ SetPodEnvValue

SpecPod == PodInit /\ [][PodNext]_vars

\* The ProwJob as its holder reads it: its fields, the entries of its
\* labels, and its containers with the variables of each.
PJValue ==
    [Name |-> pj.Name,
     Labels |-> MapCells(heap, pj.Labels),
     Type |-> pj.Spec.Type, Job |-> pj.Spec.Job, Refs |-> pj.Spec.Refs,
     Status |-> pj.Status,
     RestartPolicy |-> pj.Spec.PodSpec.RestartPolicy,
     Containers |->
        [i \in 1..pj.Spec.PodSpec.Containers.len |->
            [Name |-> ContainersOf(heap, pj)[i].Name,
             Env |-> SliceCells(heap, ContainersOf(heap, pj)[i].Env)]]]

\* The containers of the pod.
PodContainers == SliceCells(heap, pod.Spec.Containers)

\* C3: a call of ProwJobToPod leaves the ProwJob as it was (name, labels,
\* spec, restart policy, containers, and the name and variables of each
\* container), and the pod it returns has the restart policy Never and as
\* many containers, container i named <name of the ProwJob>-<i>.
C3_InputUnchanged ==
    [][(pc = "built" /\ pc' = "projected") =>
          /\ PJValue' = PJValue
          /\ pj' = pj
          /\ pod'.Spec.RestartPolicy = "Never"
          /\ Len(PodContainers') = Len(PJValue.Containers)
          /\ \A i \in 1..Len(PodContainers') :
                PodContainers'[i].Name = pj.Name \o "-" \o Itoa(i - 1)]_vars

\* ProwJobToPod has returned for a ProwJob with two containers; the first
\* had room for the environment behind its one variable, so that the append
\* wrote behind it in the array of the ProwJob; the second had none.
C3_Witness ==
    /\ pc = "projected"
    /\ Len(PodContainers) = 2
    /\ PodContainers[1].Name = "job-xyz-0"
    /\ PodContainers[2].Name = "job-xyz-1"
    /\ PodContainers[1].Env.arr = ContainersOf(heap, pj)[1].Env.arr
    /\ ContainersOf(heap, pj)[1].Env.len = 1
    /\ PodContainers[1].Env.len = 3
    /\ PodContainers[2].Env.arr # ContainersOf(heap, pj)[2].Env.arr

\* C4 as stated: whatever the holder of the returned pod writes to it (a
\* label, an annotation, a container, an environment variable of a
\* container), the ProwJob stays as it was.
C4_NoSharedState ==
    [][(pc = "projected" /\ pc' = "mutated") => PJValue' = PJValue]_vars
=============================================================================
